---- MODULE Spec2Model ----
(***************************************************************************)
(* A model of the resource lifecycle and device selection of the          *)
(* VulkanTest application: the VDeleter ownership wrapper (VDeleter.h)    *)
(* and HelloTriangleApplication's construction sequence, device scoring   *)
(* and teardown (HelloTriangleApplication.h).                             *)
(*                                                                         *)
(* Three specifications share the variables:                               *)
(*   Spec         one run() of the application followed by the            *)
(*                destruction of the application object;                   *)
(*   SpecDeleter  one VDeleter under arbitrary sequences of replace(),    *)
(*                slot writes, raw-handle assignment and destruction;      *)
(*   SpecPick     pickPhysicalDevice over bounded enumerations.            *)
(***************************************************************************)
EXTENDS Integers, Sequences, FiniteSets, TLC

(***************************************************************************)
(* Bounds of the model.                                                    *)
(***************************************************************************)
\* largest number of images the swapchain returns
MaxImages == 2
\* longest accelerator enumeration of a session
MaxDevices == 2
\* longest accelerator enumeration handed to pickPhysicalDevice alone
MaxPickDevices == 3
\* number of operations applied to the single VDeleter of SpecDeleter
MaxOps == 5
\* largest number of queue families of an accelerator
MaxFamilies == 2
\* longest list of surface formats and of present modes a surface reports
MaxEntries == 3

(***************************************************************************)
(* Program constants.                                                      *)
(***************************************************************************)
VK_NULL_HANDLE == 0
UnifiedBonus == 100
DiscreteBonus == 1000
WIDTH == 800
HEIGHT == 600

VARIABLES
    pc,                     \* position of run(): the step about to execute
    enableValidationLayers, \* build configuration (NDEBUG)
    availableLayers,        \* layers vkEnumerateInstanceLayerProperties reports
    devices,                \* accelerators vkEnumeratePhysicalDevices reports
    app,                    \* the owning VDeleter members of the application
    physicalDevice,         \* selected accelerator: index in devices, or null
    swapChainImages,        \* images returned by the swapchain
    swapChainImageFormat,   \* negotiated format
    swapChainExtent,        \* negotiated extent
    commandBuffers,         \* allocated command buffers
    native,                 \* the native layer: live handles, call log, next handle
    error,                  \* message of the exception that left run(), or ""
    steps,                  \* history: the construction steps entered, in order
    dtorIdx,                \* destructor position: members still to destroy
    queueCreateInfos,       \* queue-create-infos handed to vkCreateDevice
    object,                 \* SpecDeleter: the wrapper's stored handle
    dpc,                    \* SpecDeleter: "idle", "slot" (slot exposed), "dead"
    ops,                    \* SpecDeleter: history of operations applied
    stored,                 \* SpecDeleter: history of handles stored in the wrapper
    physicalDeviceCandidate,\* SpecEval, SpecNegotiate: the accelerator queried
    called,                 \* SpecEval, SpecNegotiate: the function called
    returned                \* SpecEval, SpecNegotiate: the value it returned

vars == <<pc, enableValidationLayers, availableLayers, devices, app,
          physicalDevice, swapChainImages, swapChainImageFormat,
          swapChainExtent, commandBuffers, native, error, steps, dtorIdx,
          queueCreateInfos, object, dpc, ops, stored,
          physicalDeviceCandidate, called, returned>>

sessionVars == <<pc, enableValidationLayers, availableLayers, devices, app,
                 physicalDevice, swapChainImages, swapChainImageFormat,
                 swapChainExtent, commandBuffers, error, steps, dtorIdx,
                 queueCreateInfos>>

deleterVars == <<object, dpc, ops, stored>>

queryVars == <<physicalDeviceCandidate, called, returned>>

\* the variables of a specification that does not use them
SessionIdle ==
    /\ pc = "idle"
    /\ enableValidationLayers = FALSE
    /\ availableLayers = {}
    /\ devices = <<>>
    /\ app = [m \in {} |-> VK_NULL_HANDLE]
    /\ physicalDevice = VK_NULL_HANDLE
    /\ swapChainImages = <<>>
    /\ swapChainImageFormat = "unset"
    /\ swapChainExtent = "unset"
    /\ commandBuffers = <<>>
    /\ error = ""
    /\ steps = <<>>
    /\ dtorIdx = 0
    /\ queueCreateInfos = <<>>

DeleterIdle ==
    /\ object = VK_NULL_HANDLE
    /\ dpc = "none"
    /\ ops = <<>>
    /\ stored = <<>>

QueryIdle ==
    /\ physicalDeviceCandidate = "none"
    /\ called = "none"
    /\ returned = "none"

(***************************************************************************)
(* Sequence helpers.                                                       *)
(***************************************************************************)
RECURSIVE Reverse(_)
Reverse(s) == IF s = <<>> THEN <<>> ELSE Append(Reverse(Tail(s)), Head(s))

Range(s) == {s[i] : i \in 1..Len(s)}

\* sequences over S of length at most n
SeqsUpTo(S, n) == UNION {[1..k -> S] : k \in 0..n}

\* all orders in which the elements 1..n can be visited
Perms(n) == {p \in [1..n -> 1..n] : \A i, j \in 1..n : i # j => p[i] # p[j]}

(***************************************************************************)
(* The native layer (the Vulkan loader and driver), as a destroy-tracking  *)
(* mock: it hands out fresh handles, keeps the set of live ones and logs   *)
(* every create and destroy call with the parent handle passed to it.      *)
(***************************************************************************)
NativeInit == [live |-> {}, calls |-> <<>>, next |-> 1]

\* a successful vkCreate*: a fresh live handle, written to the caller's slot
NatCreate(nat, kind, parent) ==
    [live  |-> nat.live \cup {nat.next},
     calls |-> Append(nat.calls,
                      [op |-> "create", kind |-> kind, h |-> nat.next,
                       parent |-> parent,
                       parentLive |-> parent \in nat.live]),
     next  |-> nat.next + 1]

\* a vkDestroy*(parent, h): h is dead afterwards
NatDestroy(nat, kind, parent, h) ==
    [live  |-> nat.live \ {h},
     calls |-> Append(nat.calls,
                      [op |-> "destroy", kind |-> kind, h |-> h,
                       parent |-> parent,
                       parentLive |-> parent \in nat.live]),
     next  |-> nat.next]

Creates(nat) == SelectSeq(nat.calls, LAMBDA c : c.op = "create")
Destroys(nat) == SelectSeq(nat.calls, LAMBDA c : c.op = "destroy")
DestroyCount(nat, h) == Len(SelectSeq(nat.calls,
                            LAMBDA c : c.op = "destroy" /\ c.h = h))

(***************************************************************************)
(* VDeleter.                                                               *)
(***************************************************************************)
\* the handle a freshly constructed wrapper holds
DefaultObject == VK_NULL_HANDLE

\* cleanup(): the handles handed to the deleter and the object left behind
cleanupLeak(obj) ==
    [object |-> VK_NULL_HANDLE, deleted |-> <<>>]
cleanupNoReset(obj) ==
    [object  |-> obj,
     deleted |-> IF obj # VK_NULL_HANDLE THEN <<obj>> ELSE <<>>]
cleanup(obj) ==
    [object  |-> VK_NULL_HANDLE,
     deleted |-> IF obj # VK_NULL_HANDLE THEN <<obj>> ELSE <<>>]

\* cleanup() with the deleter bound at construction: deleter(object) calls
\* the native destroy function with the parent handle read at that moment
Release(nat, kind, parent, obj) ==
    LET c == cleanup(obj) IN
    [object |-> c.object,
     nat    |-> IF c.deleted = <<>> THEN nat
                ELSE NatDestroy(nat, kind, parent, c.deleted[1])]

\* operator=(T rhs)
AssignAlwaysCleanup(nat, kind, parent, obj, rhs) ==
    [object |-> rhs, nat |-> Release(nat, kind, parent, obj).nat]
AssignNoCleanup(nat, kind, parent, obj, rhs) ==
    [object |-> rhs, nat |-> nat]
Assign(nat, kind, parent, obj, rhs) ==
    IF rhs # obj
    THEN [object |-> rhs, nat |-> Release(nat, kind, parent, obj).nat]
    ELSE [object |-> obj, nat |-> nat]

\* vkCreate*(..., w.replace()): replace() releases what is held and exposes
\* the slot; a successful call writes a fresh handle, a failed one nothing
CreateInto(nat, kind, parent, createParent, obj, ok) ==
    LET r == Release(nat, kind, parent, obj) IN
    IF ok THEN [object |-> r.nat.next,
                nat    |-> NatCreate(r.nat, kind, createParent)]
          ELSE r

(***************************************************************************)
(* Device evaluation (DeviceCandidateEvaluator).  An accelerator is the    *)
(* snapshot of what the native queries report for it:                      *)
(*   geometryShader, deviceType, maxImageDimension2D, queueFamilies        *)
(*   (queueCount, graphics flag, presentation support per family),         *)
(*   extensions, and the surface's capabilities, formats, presentModes.    *)
(***************************************************************************)
\* TLC's integers are the 32-bit ints of the program.  A uint32_t is kept
\* as the int with the same bit pattern: 0 .. 2^31 - 1 are themselves and
\* 2^31 .. 2^32 - 1 are the negative ints (0xFFFFFFFF is -1), so that the
\* conversion between int and uint32_t is the identity on the pattern
MaxInt32 == (2 ^ 30 - 1) + 2 ^ 30
MinInt32 == (-MaxInt32) - 1

\* a + b modulo 2^32, on bit patterns
WrapAdd(a, b) ==
    IF a > 0 /\ b > 0 /\ a > MaxInt32 - b
    THEN (a + MinInt32) + (b + MinInt32)
    ELSE IF a < 0 /\ b < 0 /\ a < MinInt32 - b
    THEN (a - MinInt32) + (b - MinInt32)
    ELSE a + b

\* a < b as uint32_t values
ULess(a, b) == IF (a >= 0) = (b >= 0) THEN a < b ELSE b < 0

\* std::max and std::min of uint32_t values
UMax(a, b) == IF ULess(a, b) THEN b ELSE a
UMin(a, b) == IF ULess(b, a) THEN b ELSE a

\* std::numeric_limits<uint32_t>::max()
UINT32_MAX == -1

\* a maxImageDimension2D so large that adding the bonuses to it leaves int
HugeDimension == MaxInt32 - 101

\* QueueFamilyIndices: -1 is "unset"
Unset == -1

isComplete(indices) ==
    indices.graphicsFamily >= 0 /\ indices.presentFamily >= 0

\* the loop of findQueueFamilies without its tests of queueCount
RECURSIVE ScanFamiliesAnyCount(_, _, _)
ScanFamiliesAnyCount(fams, i, indices) ==
    IF i >= Len(fams) THEN indices
    ELSE LET queueFamily == fams[i + 1]
             g == IF queueFamily.graphics THEN i ELSE indices.graphicsFamily
             p == IF queueFamily.present THEN i ELSE indices.presentFamily
             now == [graphicsFamily |-> g, presentFamily |-> p]
         IN IF isComplete(now) THEN now
            ELSE ScanFamiliesAnyCount(fams, i + 1, now)

\* the loop of findQueueFamilies without its early exit
RECURSIVE ScanFamiliesNoBreak(_, _, _)
ScanFamiliesNoBreak(fams, i, indices) ==
    IF i >= Len(fams) THEN indices
    ELSE LET queueFamily == fams[i + 1]
             g == IF queueFamily.queueCount > 0 /\ queueFamily.graphics
                  THEN i ELSE indices.graphicsFamily
             p == IF queueFamily.queueCount > 0 /\ queueFamily.present
                  THEN i ELSE indices.presentFamily
         IN ScanFamiliesNoBreak(fams, i + 1,
                                [graphicsFamily |-> g, presentFamily |-> p])

\* the loop of findQueueFamilies from family i (0-based) on
RECURSIVE ScanFamilies(_, _, _)
ScanFamilies(fams, i, indices) ==
    IF i >= Len(fams) THEN indices
    ELSE LET queueFamily == fams[i + 1]
             g == IF queueFamily.queueCount > 0 /\ queueFamily.graphics
                  THEN i ELSE indices.graphicsFamily
             p == IF queueFamily.queueCount > 0 /\ queueFamily.present
                  THEN i ELSE indices.presentFamily
             now == [graphicsFamily |-> g, presentFamily |-> p]
         IN IF isComplete(now) THEN now ELSE ScanFamilies(fams, i + 1, now)

findQueueFamilies(dev) ==
    ScanFamilies(dev.queueFamilies, 0,
                 [graphicsFamily |-> Unset, presentFamily |-> Unset])

querySwapChainSupport(dev) ==
    [capabilities |-> dev.capabilities,
     formats      |-> dev.formats,
     presentModes |-> dev.presentModes]

deviceExtensions == {"VK_KHR_swapchain"}

checkDeviceExtensionSupport(dev) ==
    deviceExtensions \ dev.extensions = {}

\* isDeviceSuitable without the check of the geometry-shader feature
isDeviceSuitableNoGeometry(dev) ==
    LET indices == findQueueFamilies(dev)
        extensionsSupported == checkDeviceExtensionSupport(dev)
        swapChainSupport == querySwapChainSupport(dev)
        swapChainAdequate ==
            extensionsSupported
            /\ swapChainSupport.formats # <<>>
            /\ swapChainSupport.presentModes # <<>>
    IN isComplete(indices) /\ extensionsSupported /\ swapChainAdequate

\* isDeviceSuitable accepting an empty list of surface formats
isDeviceSuitableNoFormats(dev) ==
    IF ~dev.geometryShader THEN FALSE
    ELSE LET indices == findQueueFamilies(dev)
             extensionsSupported == checkDeviceExtensionSupport(dev)
             swapChainSupport == querySwapChainSupport(dev)
             swapChainAdequate ==
                 extensionsSupported
                 /\ swapChainSupport.presentModes # <<>>
         IN isComplete(indices) /\ extensionsSupported /\ swapChainAdequate

isDeviceSuitable(dev) ==
    IF ~dev.geometryShader THEN FALSE
    ELSE LET indices == findQueueFamilies(dev)
             extensionsSupported == checkDeviceExtensionSupport(dev)
             swapChainSupport == querySwapChainSupport(dev)
             swapChainAdequate ==
                 extensionsSupported
                 /\ swapChainSupport.formats # <<>>
                 /\ swapChainSupport.presentModes # <<>>
         IN isComplete(indices) /\ extensionsSupported /\ swapChainAdequate

\* rateDeviceSuitability without the test of isDeviceSuitable
rateDeviceSuitabilityUnchecked(dev) ==
    LET indices == findQueueFamilies(dev)
        s1 == 1
        s2 == IF indices.graphicsFamily = indices.presentFamily
              THEN s1 + UnifiedBonus ELSE s1
        s3 == IF dev.deviceType = "DISCRETE"
              THEN s2 + DiscreteBonus ELSE s2
    IN WrapAdd(s3, dev.maxImageDimension2D)

rateDeviceSuitability(dev) ==
    IF ~isDeviceSuitable(dev) THEN 0
    ELSE LET indices == findQueueFamilies(dev)
             s1 == 1
             s2 == IF indices.graphicsFamily = indices.presentFamily
                   THEN s1 + UnifiedBonus ELSE s1
             s3 == IF dev.deviceType = "DISCRETE"
                   THEN s2 + DiscreteBonus ELSE s2
         IN WrapAdd(s3, dev.maxImageDimension2D)

(***************************************************************************)
(* Device selection (DeviceSelector).                                      *)
(***************************************************************************)
\* the rating loop keeping the first device of a score (candidates.insert)
RECURSIVE RateAllKeepFirst(_, _, _)
RateAllKeepFirst(devs, i, candidates) ==
    IF i > Len(devs) THEN candidates
    ELSE LET score == rateDeviceSuitability(devs[i])
         IN RateAllKeepFirst(devs, i + 1,
                [s \in DOMAIN candidates \cup {score} |->
                    IF s \in DOMAIN candidates THEN candidates[s] ELSE i])

\* std::map<int, VkPhysicalDevice>: candidates[score] = device, in
\* enumeration order; a device is its 1-based position in the enumeration
RECURSIVE RateAll(_, _, _)
RateAll(devs, i, candidates) ==
    IF i > Len(devs) THEN candidates
    ELSE LET score == rateDeviceSuitability(devs[i])
         IN RateAll(devs, i + 1,
                    [s \in DOMAIN candidates \cup {score} |->
                        IF s = score THEN i ELSE candidates[s]])

EmptyMap == [s \in {} |-> 0]

\* key of candidates.begin(): std::map iterates in ascending key order
FirstKey(candidates) ==
    CHOOSE s \in DOMAIN candidates : \A t \in DOMAIN candidates : s <= t

NoGpuError == "failed to find GPUs with Vulkan support!"
NoSuitableGpuError == "failed to find a suitable GPU!"

\* pickPhysicalDevice accepting a best candidate of score 0
pickPhysicalDeviceAcceptZero(devs, before) ==
    IF Len(devs) = 0
    THEN [error |-> NoGpuError, physicalDevice |-> before]
    ELSE LET candidates == RateAll(devs, 1, EmptyMap)
             first == FirstKey(candidates)
         IN IF first >= 0
            THEN [error |-> "", physicalDevice |-> candidates[first]]
            ELSE [error |-> NoSuitableGpuError, physicalDevice |-> before]

\* pickPhysicalDevice without the check of the device count
pickPhysicalDeviceNoCountCheck(devs, before) ==
    LET candidates == RateAll(devs, 1, EmptyMap)
    IN IF DOMAIN candidates # {} /\ FirstKey(candidates) > 0
       THEN [error |-> "",
             physicalDevice |-> candidates[FirstKey(candidates)]]
       ELSE [error |-> NoSuitableGpuError, physicalDevice |-> before]

\* the exception thrown ("" for none) and the physicalDevice member afterwards
pickPhysicalDevice(devs, before) ==
    IF Len(devs) = 0
    THEN [error |-> NoGpuError, physicalDevice |-> before]
    ELSE LET candidates == RateAll(devs, 1, EmptyMap)
             first == FirstKey(candidates)
         IN IF first > 0
            THEN [error |-> "", physicalDevice |-> candidates[first]]
            ELSE [error |-> NoSuitableGpuError, physicalDevice |-> before]

(***************************************************************************)
(* Swapchain negotiation (SwapchainNegotiator).                            *)
(***************************************************************************)
PreferredFormat ==
    [format |-> "B8G8R8A8_UNORM", colorSpace |-> "SRGB_NONLINEAR"]

RECURSIVE FirstPreferred(_, _)
FirstPreferred(formats, i) ==
    IF i > Len(formats) THEN 0
    ELSE IF formats[i] = PreferredFormat THEN i
    ELSE FirstPreferred(formats, i + 1)

\* the values a VkSurfaceFormatKHR takes in the model
Formats == {"UNDEFINED", "B8G8R8A8_UNORM", "R8G8B8A8_UNORM"}
ColorSpaces == {"SRGB_NONLINEAR", "EXTENDED_SRGB_LINEAR"}
SurfaceFormats == [format : Formats, colorSpace : ColorSpaces]

\* availableFormats[0]: of an empty vector it is an out-of-bounds read,
\* which yields any value at all
FirstFormat(availableFormats) ==
    IF availableFormats = <<>>
    THEN SurfaceFormats
             \cup {[format |-> "indeterminate", colorSpace |-> "indeterminate"]}
    ELSE {availableFormats[1]}

\* chooseSwapSurfaceFormat without the case of the single UNDEFINED entry
chooseSwapSurfaceFormatNoUndefined(availableFormats) ==
    IF FirstPreferred(availableFormats, 1) # 0
    THEN {availableFormats[FirstPreferred(availableFormats, 1)]}
    ELSE FirstFormat(availableFormats)

\* the set of values the call can return: one value, except for the empty list
chooseSwapSurfaceFormat(availableFormats) ==
    IF Len(availableFormats) = 1 /\ availableFormats[1].format = "UNDEFINED"
    THEN {PreferredFormat}
    ELSE IF FirstPreferred(availableFormats, 1) # 0
    THEN {availableFormats[FirstPreferred(availableFormats, 1)]}
    ELSE FirstFormat(availableFormats)

\* the loop of chooseSwapPresentMode looking at one entry only
ScanPresentModesFirstOnly(availablePresentModes, i) ==
    IF i > Len(availablePresentModes) THEN "FIFO"
    ELSE IF availablePresentModes[i] = "MAILBOX"
    THEN availablePresentModes[i]
    ELSE "FIFO"

\* the loop of chooseSwapPresentMode from entry i on
RECURSIVE ScanPresentModes(_, _)
ScanPresentModes(availablePresentModes, i) ==
    IF i > Len(availablePresentModes) THEN "FIFO"
    ELSE IF availablePresentModes[i] = "MAILBOX"
    THEN availablePresentModes[i]
    ELSE ScanPresentModes(availablePresentModes, i + 1)

chooseSwapPresentMode(availablePresentModes) ==
    ScanPresentModes(availablePresentModes, 1)

\* chooseSwapExtent without the lower bound of the clamp
chooseSwapExtentNoMin(capabilities) ==
    IF capabilities.currentExtent.width # UINT32_MAX
    THEN capabilities.currentExtent
    ELSE [width  |-> UMin(capabilities.maxImageExtent.width, WIDTH),
          height |-> UMin(capabilities.maxImageExtent.height, HEIGHT)]

chooseSwapExtent(capabilities) ==
    IF capabilities.currentExtent.width # UINT32_MAX
    THEN capabilities.currentExtent
    ELSE [width  |-> UMax(capabilities.minImageExtent.width,
                          UMin(capabilities.maxImageExtent.width, WIDTH)),
          height |-> UMax(capabilities.minImageExtent.height,
                          UMin(capabilities.maxImageExtent.height, HEIGHT))]

\* the image count createSwapChain requests
chooseImageCount(capabilities) ==
    LET imageCount == WrapAdd(capabilities.minImageCount, 1)
    IN IF ULess(0, capabilities.maxImageCount)
          /\ ULess(capabilities.maxImageCount, imageCount)
       THEN capabilities.maxImageCount
       ELSE imageCount

(***************************************************************************)
(* HelloTriangleApplication: members, construction, teardown.              *)
(***************************************************************************)
\* the owning members, in declaration order (a member names the kind of
\* native resource it owns)
MembersDeviceEarly ==
    <<"instance", "callback", "surface", "swapChain", "swapChainImageViews",
      "renderPass", "pipelineLayout", "graphicsPipeline",
      "swapChainFramebuffers", "commandPool", "device">>
MembersPoolEarly ==
    <<"instance", "callback", "surface", "device", "commandPool", "swapChain",
      "swapChainImageViews", "renderPass", "pipelineLayout",
      "graphicsPipeline", "swapChainFramebuffers">>
Members ==
    <<"instance", "callback", "surface", "device", "swapChain",
      "swapChainImageViews", "renderPass", "pipelineLayout",
      "graphicsPipeline", "swapChainFramebuffers", "commandPool">>

IsVector(m) == m \in {"swapChainImageViews", "swapChainFramebuffers"}

\* the wrapper whose handle the member's deleter passes to the destroy
\* function: the constructor each member is declared with
ParentOf(m) ==
    CASE m \in {"instance", "device"} -> "none"
      [] m \in {"callback", "surface"} -> "instance"
      [] OTHER -> "device"

\* operator T() of the parent wrapper, evaluated when the deleter runs
ParentHandle(a, m) ==
    IF ParentOf(m) = "none" THEN VK_NULL_HANDLE ELSE a[ParentOf(m)]

AppInit ==
    [m \in Range(Members) |-> IF IsVector(m) THEN <<>> ELSE DefaultObject]

validationLayers == {"VK_LAYER_LUNARG_standard_validation"}

\* checkValidationLayerSupport finding every layer
checkValidationLayerSupportAlways(available) == TRUE
checkValidationLayerSupport(available) == validationLayers \subseteq available

\* initVulkan(): the construction steps in call order
initVulkanSurfaceLate ==
    <<"createInstance", "setupDebugCallback", "pickPhysicalDevice",
      "createSurface", "createLogicalDevice", "createSwapChain",
      "createImageViews", "createRenderPass", "createGraphicsPipeline",
      "createFrameBuffers", "createCommandPool", "createCommandBuffers">>
initVulkan ==
    <<"createInstance", "setupDebugCallback", "createSurface",
      "pickPhysicalDevice", "createLogicalDevice", "createSwapChain",
      "createImageViews", "createRenderPass", "createGraphicsPipeline",
      "createFrameBuffers", "createCommandPool", "createCommandBuffers">>

StepIndex(step) == CHOOSE i \in 1..Len(initVulkan) : initVulkan[i] = step

\* run(): where control goes when a step returns
StepAfterSkipLast(step) ==
    IF StepIndex(step) >= Len(initVulkan) - 1 THEN "mainLoop"
    ELSE initVulkan[StepIndex(step) + 1]
StepAfter(step) ==
    IF StepIndex(step) = Len(initVulkan) THEN "mainLoop"
    ELSE initVulkan[StepIndex(step) + 1]

\* where control goes when a step throws: nothing in initVulkan() or run()
\* catches, so the exception leaves run()
AfterThrowSwallowed(step) == StepAfter(step)
AfterThrow(step) == "thrown"

Returns(step) ==
    /\ pc' = StepAfter(step)
    /\ error' = error

\* a step that logs an unreadable file and carries on
ThrowsFileErrorIgnored(step, msg) ==
    /\ pc' = IF msg = "failed to open file!" THEN StepAfter(step)
             ELSE AfterThrow(step)
    /\ error' = msg

Throws(step, msg) ==
    /\ pc' = AfterThrow(step)
    /\ error' = msg

\* a step is entered
Enter(step) ==
    /\ pc = step
    /\ steps' = Append(steps, step)

\* if (vkCreate*(..., member.replace()) != VK_SUCCESS) throw ...;
CreateMember(step, m, createParent, msg) ==
    \E ok \in BOOLEAN :
        LET r == CreateInto(native, m, ParentHandle(app, m), createParent,
                            app[m], ok) IN
        /\ app' = [app EXCEPT ![m] = r.object]
        /\ native' = r.nat
        /\ IF ok THEN Returns(step) ELSE Throws(step, msg)

\* the loop "for i: vkCreate*(..., v[i].replace())" over the first k
\* elements, all of which succeed
RECURSIVE CreateElements(_, _, _, _, _)
CreateElements(nat, m, parent, objs, k) ==
    IF k = 0 THEN [objs |-> objs, nat |-> nat]
    ELSE LET before == CreateElements(nat, m, parent, objs, k - 1)
             r == CreateInto(before.nat, m, parent, parent,
                             before.objs[k], TRUE)
         IN [objs |-> [before.objs EXCEPT ![k] = r.object], nat |-> r.nat]

\* the handle held by the temporary VDeleter<T>{device, destroy} that
\* resize() copies into the new elements: that of a fresh wrapper
PrototypeObjectLive == VK_NULL_HANDLE + 1
PrototypeObject == DefaultObject

\* v.resize(n, prototype): elements beyond the old size are copies of the
\* prototype (the implicit copy constructor copies the stored handle)
Resize(v, n) ==
    [i \in 1..n |-> IF i <= Len(v) THEN v[i] ELSE PrototypeObject]

\* resize the vector member m to n wrappers (the temporary prototype is
\* destroyed when the resize() statement ends), then create into each in
\* turn; the native call fails on element k + 1, or on none when k = n
CreateVector(step, m, n, msg) ==
    \E k \in 0..n :
        LET parent == ParentHandle(app, m)
            resized == Resize(app[m], n)
            tempGone == Release(native, m, parent, PrototypeObject)
            made == CreateElements(tempGone.nat, m, parent, resized, k)
            failed == IF k < n
                      THEN CreateInto(made.nat, m, parent, parent,
                                      made.objs[k + 1], FALSE)
                      ELSE [object |-> VK_NULL_HANDLE, nat |-> made.nat]
        IN
        /\ app' = [app EXCEPT ![m] =
                     IF k < n THEN [made.objs EXCEPT ![k + 1] = failed.object]
                     ELSE made.objs]
        /\ native' = failed.nat
        /\ IF k = n THEN Returns(step) ELSE Throws(step, msg)

InitWindow ==
    /\ pc = "initWindow"
    /\ pc' = initVulkan[1]
    /\ UNCHANGED <<queueCreateInfos,
                   enableValidationLayers, availableLayers, devices, app,
                   physicalDevice, swapChainImages, swapChainImageFormat,
                   swapChainExtent, commandBuffers, native, error, steps,
                   dtorIdx, deleterVars, queryVars>>

CreateInstance ==
    /\ Enter("createInstance")
    /\ IF enableValidationLayers
          /\ ~checkValidationLayerSupport(availableLayers)
       THEN /\ Throws("createInstance",
                      "validation layers requested, but not available!")
            /\ UNCHANGED <<app, native>>
       ELSE CreateMember("createInstance", "instance", VK_NULL_HANDLE,
                         "failed to create instance!")
    /\ UNCHANGED <<queueCreateInfos,
                   enableValidationLayers, availableLayers, devices,
                   physicalDevice, swapChainImages, swapChainImageFormat,
                   swapChainExtent, commandBuffers, dtorIdx, deleterVars, queryVars>>

SetupDebugCallback ==
    /\ Enter("setupDebugCallback")
    /\ IF ~enableValidationLayers
       THEN /\ Returns("setupDebugCallback")
            /\ UNCHANGED <<app, native>>
       ELSE CreateMember("setupDebugCallback", "callback", app.instance,
                         "failed to set up debug callback!")
    /\ UNCHANGED <<queueCreateInfos,
                   enableValidationLayers, availableLayers, devices,
                   physicalDevice, swapChainImages, swapChainImageFormat,
                   swapChainExtent, commandBuffers, dtorIdx, deleterVars, queryVars>>

CreateSurface ==
    /\ Enter("createSurface")
    /\ CreateMember("createSurface", "surface", app.instance,
                    "failed to create window surface!")
    /\ UNCHANGED <<queueCreateInfos,
                   enableValidationLayers, availableLayers, devices,
                   physicalDevice, swapChainImages, swapChainImageFormat,
                   swapChainExtent, commandBuffers, dtorIdx, deleterVars, queryVars>>

PickPhysicalDevice ==
    /\ Enter("pickPhysicalDevice")
    /\ LET r == pickPhysicalDevice(devices, physicalDevice) IN
        /\ physicalDevice' = r.physicalDevice
        /\ IF r.error = "" THEN Returns("pickPhysicalDevice")
           ELSE Throws("pickPhysicalDevice", r.error)
    /\ UNCHANGED <<queueCreateInfos,
                   enableValidationLayers, availableLayers, devices, app,
                   swapChainImages, swapChainImageFormat, swapChainExtent,
                   commandBuffers, native, dtorIdx, deleterVars, queryVars>>

\* std::set<int> uniqueQueueFamilies = {graphicsFamily, presentFamily}, as
\* the sequence its iteration yields (ascending, each value once)
uniqueQueueFamiliesPerRole(indices) ==
    <<indices.graphicsFamily, indices.presentFamily>>
uniqueQueueFamilies(indices) ==
    IF indices.graphicsFamily = indices.presentFamily
    THEN <<indices.graphicsFamily>>
    ELSE IF indices.graphicsFamily < indices.presentFamily
    THEN <<indices.graphicsFamily, indices.presentFamily>>
    ELSE <<indices.presentFamily, indices.graphicsFamily>>

CreateLogicalDevice ==
    /\ Enter("createLogicalDevice")
    /\ LET indices == findQueueFamilies(devices[physicalDevice])
           families == uniqueQueueFamilies(indices)
       IN queueCreateInfos' =
              [i \in 1..Len(families) |->
                  [queueFamilyIndex |-> families[i], queueCount |-> 1]]
    /\ CreateMember("createLogicalDevice", "device", VK_NULL_HANDLE,
                    "failed to create logical device!")
    /\ UNCHANGED <<enableValidationLayers, availableLayers, devices,
                   physicalDevice, swapChainImages, swapChainImageFormat,
                   swapChainExtent, commandBuffers, dtorIdx, deleterVars, queryVars>>

\* the swapchain returns at least the requested number of images
CreateSwapChain ==
    /\ Enter("createSwapChain")
    /\ LET swapChainSupport == querySwapChainSupport(devices[physicalDevice])
           extent == chooseSwapExtent(swapChainSupport.capabilities)
           imageCount == chooseImageCount(swapChainSupport.capabilities)
       IN
        /\ CreateMember("createSwapChain", "swapChain", app.device,
                        "failed to create swap chain!")
        /\ IF pc' = StepAfter("createSwapChain")
           THEN /\ \E n \in imageCount..MaxImages :
                       swapChainImages' = [i \in 1..n |-> i]
                /\ \E surfaceFormat \in
                       chooseSwapSurfaceFormat(swapChainSupport.formats) :
                       swapChainImageFormat' = surfaceFormat.format
                /\ swapChainExtent' = extent
           ELSE UNCHANGED <<swapChainImages, swapChainImageFormat,
                            swapChainExtent>>
    /\ UNCHANGED <<queueCreateInfos,
                   enableValidationLayers, availableLayers, devices,
                   physicalDevice, commandBuffers, dtorIdx, deleterVars, queryVars>>

CreateImageViews ==
    /\ Enter("createImageViews")
    /\ CreateVector("createImageViews", "swapChainImageViews",
                    Len(swapChainImages), "failed to create image views!")
    /\ UNCHANGED <<queueCreateInfos,
                   enableValidationLayers, availableLayers, devices,
                   physicalDevice, swapChainImages, swapChainImageFormat,
                   swapChainExtent, commandBuffers, dtorIdx, deleterVars, queryVars>>

CreateRenderPass ==
    /\ Enter("createRenderPass")
    /\ CreateMember("createRenderPass", "renderPass", app.device,
                    "failed to create render pass!")
    /\ UNCHANGED <<queueCreateInfos,
                   enableValidationLayers, availableLayers, devices,
                   physicalDevice, swapChainImages, swapChainImageFormat,
                   swapChainExtent, commandBuffers, dtorIdx, deleterVars, queryVars>>

\* the points of createGraphicsPipeline() that can throw, in order
PipelineStages ==
    <<"readVert", "readFrag", "vertShaderModule", "fragShaderModule",
      "pipelineLayout", "graphicsPipeline">>

\* createGraphicsPipeline() throwing one message for all its native calls
PipelineErrorOneMessage(stage) ==
    IF stage \in {"readVert", "readFrag"} THEN "failed to open file!"
    ELSE "failed to create graphics pipeline!"

PipelineError(stage) ==
    CASE stage \in {"readVert", "readFrag"} -> "failed to open file!"
      [] stage \in {"vertShaderModule", "fragShaderModule"} ->
             "failed to create shader module!"
      [] stage = "pipelineLayout" -> "failed to create pipeline layout!"
      [] OTHER -> "failed to create graphics pipeline!"

\* stage number f throws (f = Len(PipelineStages) + 1: none does); the two
\* local shader-module wrappers are destroyed when the function is left,
\* by return or by exception, fragShaderModule first
CreateGraphicsPipeline ==
    /\ Enter("createGraphicsPipeline")
    /\ \E f \in 1..(Len(PipelineStages) + 1) :
        LET skip(nat, obj) == [object |-> obj, nat |-> nat]
            vert == IF f >= 3
                    THEN CreateInto(native, "shaderModule", app.device,
                                    app.device, DefaultObject, f > 3)
                    ELSE skip(native, DefaultObject)
            frag == IF f >= 4
                    THEN CreateInto(vert.nat, "shaderModule", app.device,
                                    app.device, DefaultObject, f > 4)
                    ELSE skip(vert.nat, DefaultObject)
            layout == IF f >= 5
                      THEN CreateInto(frag.nat, "pipelineLayout", app.device,
                                      app.device, app.pipelineLayout, f > 5)
                      ELSE skip(frag.nat, app.pipelineLayout)
            pipeline == IF f >= 6
                        THEN CreateInto(layout.nat, "graphicsPipeline",
                                        app.device, app.device,
                                        app.graphicsPipeline, f > 6)
                        ELSE skip(layout.nat, app.graphicsPipeline)
            fragGone == Release(pipeline.nat, "shaderModule", app.device,
                                frag.object)
            vertGone == Release(fragGone.nat, "shaderModule", app.device,
                                vert.object)
        IN
        /\ app' = [app EXCEPT !.pipelineLayout = layout.object,
                              !.graphicsPipeline = pipeline.object]
        /\ native' = vertGone.nat
        /\ IF f > Len(PipelineStages)
           THEN Returns("createGraphicsPipeline")
           ELSE Throws("createGraphicsPipeline",
                       PipelineError(PipelineStages[f]))
    /\ UNCHANGED <<queueCreateInfos,
                   enableValidationLayers, availableLayers, devices,
                   physicalDevice, swapChainImages, swapChainImageFormat,
                   swapChainExtent, commandBuffers, dtorIdx, deleterVars, queryVars>>

CreateFrameBuffers ==
    /\ Enter("createFrameBuffers")
    /\ CreateVector("createFrameBuffers", "swapChainFramebuffers",
                    Len(app.swapChainImageViews),
                    "failed to create framebuffer!")
    /\ UNCHANGED <<queueCreateInfos,
                   enableValidationLayers, availableLayers, devices,
                   physicalDevice, swapChainImages, swapChainImageFormat,
                   swapChainExtent, commandBuffers, dtorIdx, deleterVars, queryVars>>

CreateCommandPool ==
    /\ Enter("createCommandPool")
    /\ CreateMember("createCommandPool", "commandPool", app.device,
                    "failed to create command pool!")
    /\ UNCHANGED <<queueCreateInfos,
                   enableValidationLayers, availableLayers, devices,
                   physicalDevice, swapChainImages, swapChainImageFormat,
                   swapChainExtent, commandBuffers, dtorIdx, deleterVars, queryVars>>

\* commandBuffers.resize(swapChainFramebuffers.size())
commandBufferCountRequested ==
    chooseImageCount(querySwapChainSupport(devices[physicalDevice]).capabilities)
commandBufferCount == Len(app.swapChainFramebuffers)

\* command buffers belong to the pool, which frees them when it is destroyed;
\* a failed allocation leaves the resized vector's null handles
CreateCommandBuffers ==
    /\ Enter("createCommandBuffers")
    /\ LET n == commandBufferCount IN
       \E outcome \in {"ok", "allocate", "record"} :
        /\ commandBuffers' =
               [i \in 1..n |-> IF outcome = "allocate" THEN VK_NULL_HANDLE
                               ELSE i]
        /\ CASE outcome = "ok" -> Returns("createCommandBuffers")
             [] outcome = "allocate" ->
                    Throws("createCommandBuffers",
                           "failed to allocate command buffers!")
             [] OTHER ->
                    Throws("createCommandBuffers",
                           "failed to record command buffer!")
    /\ UNCHANGED <<queueCreateInfos,
                   enableValidationLayers, availableLayers, devices, app,
                   physicalDevice, swapChainImages, swapChainImageFormat,
                   swapChainExtent, native, dtorIdx, deleterVars, queryVars>>

\* mainLoop(): polls events until the window is closed, then run() returns
MainLoop ==
    /\ pc = "mainLoop"
    /\ steps' = Append(steps, "mainLoop")
    /\ pc' = "returned"
    /\ UNCHANGED <<queueCreateInfos,
                   enableValidationLayers, availableLayers, devices, app,
                   physicalDevice, swapChainImages, swapChainImageFormat,
                   swapChainExtent, commandBuffers, native, error, dtorIdx,
                   deleterVars, queryVars>>

\* the application object's lifetime ends once run() has returned or thrown
LifetimeEnds == {"returned", "thrown"}

\* the elements of a vector are destroyed in the order the library chooses
RECURSIVE DestroyElements(_, _, _, _, _, _)
DestroyElements(nat, m, parent, objs, order, k) ==
    IF k = 0 THEN [objs |-> objs, nat |-> nat]
    ELSE LET before == DestroyElements(nat, m, parent, objs, order, k - 1)
             r == Release(before.nat, m, parent, before.objs[order[k]])
         IN [objs |-> [before.objs EXCEPT ![order[k]] = r.object],
             nat  |-> r.nat]

\* ~HelloTriangleApplication(): the members' destructors run one by one in
\* reverse declaration order
DestroyMember ==
    /\ pc \in LifetimeEnds \cup {"dtor"}
    /\ dtorIdx > 0
    /\ LET m == Members[dtorIdx] IN
       IF IsVector(m)
       THEN \E order \in Perms(Len(app[m])) :
                LET r == DestroyElements(native, m, ParentHandle(app, m),
                                         app[m], order, Len(app[m])) IN
                /\ app' = [app EXCEPT ![m] = r.objs]
                /\ native' = r.nat
       ELSE LET r == Release(native, m, ParentHandle(app, m), app[m]) IN
                /\ app' = [app EXCEPT ![m] = r.object]
                /\ native' = r.nat
    /\ dtorIdx' = dtorIdx - 1
    /\ pc' = IF dtorIdx = 1 THEN "destroyed" ELSE "dtor"
    /\ UNCHANGED <<queueCreateInfos,
                   enableValidationLayers, availableLayers, devices,
                   physicalDevice, swapChainImages, swapChainImageFormat,
                   swapChainExtent, commandBuffers, error, steps,
                   deleterVars, queryVars>>

(***************************************************************************)
(* The accelerators and configurations the specifications range over.      *)
(***************************************************************************)
Unified == <<[queueCount |-> 1, graphics |-> TRUE, present |-> TRUE]>>
Split == <<[queueCount |-> 1, graphics |-> TRUE, present |-> FALSE],
           [queueCount |-> 1, graphics |-> FALSE, present |-> TRUE]>>

AnySize == [width |-> UINT32_MAX, height |-> UINT32_MAX]

Caps(maxCount) ==
    [currentExtent  |-> AnySize,
     minImageExtent |-> [width |-> 400, height |-> 300],
     maxImageExtent |-> [width |-> 1920, height |-> 1080],
     minImageCount  |-> 1,
     maxImageCount  |-> maxCount]

Gpu(geometry, type, families, dim, maxCount) ==
    [geometryShader      |-> geometry,
     deviceType          |-> type,
     queueFamilies       |-> families,
     extensions          |-> {"VK_KHR_swapchain"},
     formats             |-> <<[format |-> "UNDEFINED",
                                colorSpace |-> "SRGB_NONLINEAR"]>>,
     presentModes        |-> <<"FIFO">>,
     maxImageDimension2D |-> dim,
     capabilities        |-> Caps(maxCount)]

\* a session sees: a discrete unified accelerator, an integrated split one
\* whose surface allows a single image, and one without geometry shaders
GraphicsOnly == <<[queueCount |-> 1, graphics |-> TRUE, present |-> FALSE]>>

SessionDevices ==
    {Gpu(TRUE, "DISCRETE", Unified, 4096, 0),
     Gpu(TRUE, "INTEGRATED", Split, 4096, 1),
     Gpu(FALSE, "DISCRETE", Unified, 16384, 0),
     Gpu(TRUE, "DISCRETE", GraphicsOnly, 16384, 0),
     [Gpu(TRUE, "DISCRETE", Unified, 16384, 0) EXCEPT !.formats = <<>>]}

PickDevices ==
    {Gpu(g, t, f, d, 0) : g \in BOOLEAN, t \in {"DISCRETE", "INTEGRATED"},
                          f \in {Unified, Split}, d \in {4096, 16384}}
    \cup {Gpu(TRUE, "INTEGRATED", Split, UINT32_MAX, 0),
          Gpu(TRUE, "DISCRETE", Unified, HugeDimension, 0),
          Gpu(TRUE, "DISCRETE", Unified, 4096, 1)}

\* the layers an installation can report: the requested one and another
InstalledLayers == validationLayers \cup {"VK_LAYER_LUNARG_api_dump"}

Init ==
    /\ pc = "initWindow"
    /\ enableValidationLayers \in BOOLEAN
    /\ availableLayers \in SUBSET InstalledLayers
    /\ devices \in SeqsUpTo(SessionDevices, MaxDevices)
    /\ app = AppInit
    /\ physicalDevice = VK_NULL_HANDLE
    /\ swapChainImages = <<>>
    /\ swapChainImageFormat = "unset"
    /\ swapChainExtent = "unset"
    /\ commandBuffers = <<>>
    /\ native = NativeInit
    /\ error = ""
    /\ steps = <<>>
    /\ dtorIdx = Len(Members)
    /\ queueCreateInfos = <<>>
    /\ DeleterIdle
    /\ QueryIdle

Next ==
    \/ InitWindow
    \/ CreateInstance
    \/ SetupDebugCallback
    \/ CreateSurface
    \/ PickPhysicalDevice
    \/ CreateLogicalDevice
    \/ CreateSwapChain
    \/ CreateImageViews
    \/ CreateRenderPass
    \/ CreateGraphicsPipeline
    \/ CreateFrameBuffers
    \/ CreateCommandPool
    \/ CreateCommandBuffers
    \/ MainLoop
    \/ DestroyMember

Spec == Init /\ [][Next]_vars

\* SpecPick: the application as it stands when pickPhysicalDevice() is
\* called in a build without validation layers (instance and surface
\* created), for every enumeration of up to MaxPickDevices accelerators
InitPick ==
    /\ pc = "pickPhysicalDevice"
    /\ enableValidationLayers = FALSE
    /\ availableLayers \in SUBSET validationLayers
    /\ devices \in SeqsUpTo(PickDevices, MaxPickDevices)
    /\ app = [AppInit EXCEPT !.instance = 1, !.surface = 2]
    /\ physicalDevice = VK_NULL_HANDLE
    /\ swapChainImages = <<>>
    /\ swapChainImageFormat = "unset"
    /\ swapChainExtent = "unset"
    /\ commandBuffers = <<>>
    /\ native = NatCreate(NatCreate(NativeInit, "instance", VK_NULL_HANDLE),
                          "surface", 1)
    /\ error = ""
    /\ steps = <<"createInstance", "setupDebugCallback", "createSurface">>
    /\ dtorIdx = Len(Members)
    /\ queueCreateInfos = <<>>
    /\ DeleterIdle
    /\ QueryIdle

NextPick == PickPhysicalDevice

SpecPick == InitPick /\ [][NextPick]_vars

(***************************************************************************)
(* SpecEval: the queries of one accelerator (findQueueFamilies,            *)
(* isDeviceSuitable, rateDeviceSuitability), for every accelerator with up *)
(* to MaxFamilies queue families.                                          *)
(***************************************************************************)
\* VkQueueFamilyProperties with the surface support of the family
QueueFamilies ==
    [queueCount : {0, 1}, graphics : BOOLEAN, present : BOOLEAN]

Dimensions == {4096, 16384, HugeDimension, UINT32_MAX}

OneFormat == <<[format |-> "UNDEFINED", colorSpace |-> "SRGB_NONLINEAR"]>>

EvalDevices ==
    {[geometryShader      |-> g,
      deviceType          |-> t,
      queueFamilies       |-> f,
      extensions          |-> e,
      formats             |-> fm,
      presentModes        |-> pm,
      maxImageDimension2D |-> d,
      capabilities        |-> Caps(0)] :
        g \in BOOLEAN, t \in {"DISCRETE", "INTEGRATED"},
        f \in SeqsUpTo(QueueFamilies, MaxFamilies),
        e \in {{}, {"VK_KHR_swapchain"}},
        fm \in {<<>>, OneFormat}, pm \in {<<>>, <<"FIFO">>},
        d \in Dimensions}

Query(name, value) ==
    /\ called = "none"
    /\ called' = name
    /\ returned' = value
    /\ UNCHANGED <<physicalDeviceCandidate, native, sessionVars, deleterVars>>

FindQueueFamilies ==
    Query("findQueueFamilies", findQueueFamilies(physicalDeviceCandidate))

IsDeviceSuitable ==
    Query("isDeviceSuitable", isDeviceSuitable(physicalDeviceCandidate))

RateDeviceSuitability ==
    Query("rateDeviceSuitability",
          rateDeviceSuitability(physicalDeviceCandidate))

InitQuery(inputs) ==
    /\ SessionIdle
    /\ DeleterIdle
    /\ native = NativeInit
    /\ physicalDeviceCandidate \in inputs
    /\ called = "none"
    /\ returned = "none"

InitEval == InitQuery(EvalDevices)

NextEval ==
    \/ FindQueueFamilies
    \/ IsDeviceSuitable
    \/ RateDeviceSuitability

SpecEval == InitEval /\ [][NextEval]_vars

(***************************************************************************)
(* SpecNegotiate: the choices made from what the surface of one            *)
(* accelerator reports, for every list of up to MaxEntries formats and     *)
(* present modes.                                                          *)
(***************************************************************************)
PresentModes == {"IMMEDIATE", "MAILBOX", "FIFO"}

\* extents and image counts a surface reports, the sentinel, values above
\* 2^31 and minima above maxima included
CurrentExtents ==
    {AnySize,
     [width |-> 1024, height |-> 768],
     [width |-> UINT32_MAX, height |-> 768],
     [width |-> 640, height |-> UINT32_MAX]}
MinExtents == [width : {1, 400, 1000}, height : {1, 300, 700}]
MaxExtents == [width : {640, 1920, MinInt32}, height : {480, 1080}]
MinImageCounts == {1, 2, 3, UINT32_MAX}
MaxImageCounts == {0, 1, 2, 3, 8, UINT32_MAX}

Capabilities ==
    [currentExtent  : CurrentExtents,
     minImageExtent : MinExtents,
     maxImageExtent : MaxExtents,
     minImageCount  : MinImageCounts,
     maxImageCount  : MaxImageCounts]

\* one accelerator per format list, per present-mode list and per
\* capabilities record: each choice reads one of the three only
NegotiateDevices ==
    {[Gpu(TRUE, "DISCRETE", Unified, 4096, 0) EXCEPT !.formats = fm] :
        fm \in SeqsUpTo(SurfaceFormats, MaxEntries)}
    \cup {[Gpu(TRUE, "DISCRETE", Unified, 4096, 0)
             EXCEPT !.presentModes = pm] :
             pm \in SeqsUpTo(PresentModes, MaxEntries)}
    \cup {[Gpu(TRUE, "DISCRETE", Unified, 4096, 0)
             EXCEPT !.capabilities = c] : c \in Capabilities}

ChooseSwapSurfaceFormat ==
    \E surfaceFormat \in chooseSwapSurfaceFormat(
                             querySwapChainSupport(physicalDeviceCandidate).formats) :
        Query("chooseSwapSurfaceFormat", surfaceFormat)

ChooseSwapPresentMode ==
    Query("chooseSwapPresentMode",
          chooseSwapPresentMode(
              querySwapChainSupport(physicalDeviceCandidate).presentModes))

ChooseSwapExtent ==
    Query("chooseSwapExtent",
          chooseSwapExtent(
              querySwapChainSupport(physicalDeviceCandidate).capabilities))

\* createSwapChain(): the value it computes for createInfo.minImageCount
ChooseImageCount ==
    Query("imageCount",
          chooseImageCount(
              querySwapChainSupport(physicalDeviceCandidate).capabilities))

InitNegotiate == InitQuery(NegotiateDevices)

NextNegotiate ==
    \/ ChooseSwapSurfaceFormat
    \/ ChooseSwapPresentMode
    \/ ChooseSwapExtent
    \/ ChooseImageCount

SpecNegotiate == InitNegotiate /\ [][NextNegotiate]_vars

(***************************************************************************)
(* SpecDeleter: one standalone VDeleter<T> and its public operations.      *)
(***************************************************************************)
DKind == "object"

\* replace() exposing the slot without releasing what is held
DReplaceNoRelease ==
    /\ dpc = "idle"
    /\ Len(ops) < MaxOps
    /\ dpc' = "slot"
    /\ ops' = Append(ops, "replace")
    /\ UNCHANGED <<object, native, stored, sessionVars, queryVars>>

DReplace ==
    /\ dpc = "idle"
    /\ Len(ops) < MaxOps
    /\ LET r == Release(native, DKind, VK_NULL_HANDLE, object) IN
        /\ object' = r.object
        /\ native' = r.nat
    /\ dpc' = "slot"
    /\ ops' = Append(ops, "replace")
    /\ UNCHANGED <<stored, sessionVars, queryVars>>

\* the native call the slot was handed to succeeds and writes its result
DSlotWrite ==
    /\ dpc = "slot"
    /\ object' = native.next
    /\ native' = NatCreate(native, DKind, VK_NULL_HANDLE)
    /\ stored' = Append(stored, native.next)
    /\ dpc' = "idle"
    /\ ops' = Append(ops, "write")
    /\ UNCHANGED <<sessionVars, queryVars>>

\* the native call fails and writes nothing
DSlotFail ==
    /\ dpc = "slot"
    /\ dpc' = "idle"
    /\ ops' = Append(ops, "fail")
    /\ UNCHANGED <<object, native, stored, sessionVars, queryVars>>

\* w = rhs for the handle already held or the null handle
DAssignHeld ==
    /\ dpc = "idle"
    /\ Len(ops) < MaxOps
    /\ \E rhs \in {VK_NULL_HANDLE, object} :
        LET r == Assign(native, DKind, VK_NULL_HANDLE, object, rhs) IN
        /\ object' = r.object
        /\ native' = r.nat
        /\ ops' = Append(ops, IF rhs = object THEN "assignSame" ELSE "assignNull")
    /\ UNCHANGED <<dpc, stored, sessionVars, queryVars>>

\* w = rhs for a live handle the caller created and hands over
DAssignFresh ==
    /\ dpc = "idle"
    /\ Len(ops) < MaxOps
    /\ LET made == NatCreate(native, DKind, VK_NULL_HANDLE)
           r == Assign(made, DKind, VK_NULL_HANDLE, object, native.next) IN
        /\ object' = r.object
        /\ native' = r.nat
    /\ stored' = Append(stored, native.next)
    /\ ops' = Append(ops, "assignNew")
    /\ UNCHANGED <<dpc, sessionVars, queryVars>>

\* ~VDeleter()
DDestruct ==
    /\ dpc = "idle"
    /\ LET r == Release(native, DKind, VK_NULL_HANDLE, object) IN
        /\ object' = r.object
        /\ native' = r.nat
    /\ dpc' = "dead"
    /\ ops' = Append(ops, "destruct")
    /\ UNCHANGED <<stored, sessionVars, queryVars>>

InitDeleter ==
    /\ SessionIdle
    /\ QueryIdle
    /\ native = NativeInit
    /\ object = DefaultObject
    /\ dpc = "idle"
    /\ ops = <<>>
    /\ stored = <<>>

NextDeleter ==
    \/ DReplace
    \/ DSlotWrite
    \/ DSlotFail
    \/ DAssignHeld
    \/ DAssignFresh
    \/ DDestruct

SpecDeleter == InitDeleter /\ [][NextDeleter]_vars

(***************************************************************************)
(* Properties.                                                             *)
(***************************************************************************)
Call(i) == native.calls[i]
CallIdx == 1..Len(native.calls)
IsDestroy(i, kinds) == Call(i).op = "destroy" /\ Call(i).kind \in kinds
IsCreate(i, kinds) == Call(i).op = "create" /\ Call(i).kind \in kinds

InstanceScoped == {"callback", "surface"}
DeviceScoped ==
    {"swapChain", "swapChainImageViews", "renderPass", "pipelineLayout",
     "graphicsPipeline", "swapChainFramebuffers", "commandPool",
     "shaderModule"}

\* the handle of the resource of the given kind created before call i
CreatedBefore(i, kind, h) ==
    \E j \in 1..(i - 1) : IsCreate(j, {kind}) /\ Call(j).h = h

\* every resource of the given kinds created before call i is destroyed
\* before call i
AllGoneBefore(i, kinds) ==
    \A j \in 1..(i - 1) :
        IsCreate(j, kinds) =>
            \E k \in (j + 1)..(i - 1) :
                IsDestroy(k, kinds) /\ Call(k).h = Call(j).h

\* C1: whenever the destroy function of a parent-scoped wrapper is called,
\* the parent handle passed to it is non-null, is the handle of the instance
\* (debug callback, surface) or of the device (all device-scoped resources,
\* the local shader modules included) and is still live; the instance is
\* destroyed only after the callback and the surface, the device only after
\* every device-scoped resource.  Holds in completed and in failed sessions.
C1_ParentLiveAtDestroy ==
    \A i \in CallIdx :
        /\ IsDestroy(i, InstanceScoped) =>
               /\ Call(i).parent # VK_NULL_HANDLE
               /\ Call(i).parentLive
               /\ CreatedBefore(i, "instance", Call(i).parent)
        /\ IsDestroy(i, DeviceScoped) =>
               /\ Call(i).parent # VK_NULL_HANDLE
               /\ Call(i).parentLive
               /\ CreatedBefore(i, "device", Call(i).parent)
        /\ IsDestroy(i, {"instance"}) => AllGoneBefore(i, InstanceScoped)
        /\ IsDestroy(i, {"device"}) => AllGoneBefore(i, DeviceScoped)

\* a failed session with validation layers, torn down: the callback, the
\* framebuffers and the instance have all been destroyed
C1_Witness ==
    /\ pc = "destroyed"
    /\ error # ""
    /\ \E i, j, k \in CallIdx :
           /\ IsDestroy(i, {"callback"})
           /\ IsDestroy(j, {"swapChainFramebuffers"})
           /\ IsDestroy(k, {"instance"})

\* the calls on resources owned by members of the application, in order
MemberCalls(op) ==
    SelectSeq(native.calls,
              LAMBDA c : c.op = op /\ c.kind \in Range(Members))

Handles(calls) == [i \in 1..Len(calls) |-> calls[i].h]
Kinds(calls) == [i \in 1..Len(calls) |-> calls[i].kind]

\* a sequence with every run of equal neighbours reduced to one element
RECURSIVE Collapse(_)
Collapse(q) ==
    IF Len(q) <= 1 THEN q
    ELSE IF q[1] = q[2] THEN Collapse(Tail(q))
    ELSE <<q[1]>> \o Collapse(Tail(q))

ClaimedDestroyOrder ==
    <<"commandPool", "swapChainFramebuffers", "graphicsPipeline",
      "pipelineLayout", "renderPass", "swapChainImageViews", "swapChain",
      "device", "surface", "callback", "instance">>

\* C2 as stated: once the application object is destroyed, the destroy calls
\* of its wrappers are exactly the reverse of the creation calls, resource
\* by resource.
C2_ExactReverseOfCreation ==
    pc = "destroyed" =>
        Handles(MemberCalls("destroy"))
            = Reverse(Handles(MemberCalls("create")))

\* C2 amended: the destroy calls come member by member in the reverse of the
\* order of creation (command pool, framebuffers, pipeline, pipeline layout,
\* render pass, image views, swapchain, device, surface, debug callback,
\* instance, skipping what was never created), and every created resource of
\* a member is destroyed in that member's turn; the order among the elements
\* of one vector is left to the vector's destructor.
C2_ReverseByMember ==
    pc = "destroyed" =>
        LET destroyed == MemberCalls("destroy")
            created == MemberCalls("create")
        IN /\ Collapse(Kinds(destroyed)) = Reverse(Collapse(Kinds(created)))
           /\ Collapse(Kinds(destroyed))
                  = SelectSeq(ClaimedDestroyOrder,
                              LAMBDA m : m \in Range(Kinds(created)))
           /\ Len(destroyed) = Len(created)
           /\ Range(Handles(destroyed)) = Range(Handles(created))

\* a fully built session with two images, destroyed
C2_Witness ==
    /\ pc = "destroyed"
    /\ error = ""
    /\ Len(swapChainImages) = 2
    /\ Len(MemberCalls("destroy")) >= Len(ClaimedDestroyOrder)

\* C3: over any sequence of replace(), slot writes, raw-handle assignments
\* and destruction of one VDeleter, the destroy function is called for
\* stored handles only and never twice for one; every handle ever stored is
\* either the one held now or has been destroyed exactly once, and after
\* destruction every stored handle has been destroyed exactly once.
C3_DestroyedExactlyOnce ==
    /\ \A i \in CallIdx :
           Call(i).op = "destroy" =>
               /\ Call(i).h \in Range(stored)
               /\ DestroyCount(native, Call(i).h) = 1
    /\ \A h \in Range(stored) :
           IF h = object THEN DestroyCount(native, h) = 0
           ELSE DestroyCount(native, h) = 1
    /\ dpc = "dead" =>
           /\ object = VK_NULL_HANDLE
           /\ native.live = {}
           /\ \A h \in Range(stored) : DestroyCount(native, h) = 1

\* a destroyed wrapper that held three handles in turn, stored through the
\* slot and by assignment
C3_Witness ==
    /\ dpc = "dead"
    /\ Len(stored) = 3
    /\ "write" \in Range(ops)
    /\ "assignNew" \in Range(ops)

\* C4: when construction has failed and the application object has been
\* destroyed, every resource whose creation succeeded has been destroyed
\* exactly once, after its creation, and no destroy call names a handle that
\* was not created.
C4_FailedBuildReleasesAll ==
    (pc = "destroyed" /\ error # "") =>
        /\ native.live = {}
        /\ \A i \in CallIdx :
               Call(i).op = "create" =>
                   /\ DestroyCount(native, Call(i).h) = 1
                   /\ \E j \in (i + 1)..Len(native.calls) :
                          Call(j).op = "destroy" /\ Call(j).h = Call(i).h
        /\ \A i \in CallIdx :
               Call(i).op = "destroy" =>
                   \E j \in 1..(i - 1) :
                       Call(j).op = "create" /\ Call(j).h = Call(i).h
                       /\ Call(j).kind = Call(i).kind

\* construction failed on the second framebuffer of two and was unwound
C4_Witness ==
    /\ pc = "destroyed"
    /\ error = "failed to create framebuffer!"
    /\ Len(swapChainImages) = 2
    /\ Len(SelectSeq(native.calls,
                     LAMBDA c : c.op = "create"
                                /\ c.kind = "swapChainFramebuffers")) = 1

\* a step of SpecDeleter that only releases: replace() or the destructor
ReleaseStep == DReplace \/ DDestruct

\* C5: a release (replace() or destruction) leaves the null handle stored;
\* it calls the destroy function once, for the handle held, if that was
\* non-null, and calls nothing if the wrapper already held null, so the
\* second of two releases in a row calls nothing.
C5_ReleaseIdempotent ==
    [][ReleaseStep =>
          /\ object' = VK_NULL_HANDLE
          /\ native'.calls =
                 IF object = VK_NULL_HANDLE THEN native.calls
                 ELSE Append(native.calls,
                             [op |-> "destroy", kind |-> DKind, h |-> object,
                              parent |-> VK_NULL_HANDLE,
                              parentLive |-> FALSE])]_vars

\* a handle was stored, then released twice in a row (replace(), no write,
\* then destruction): one destroy call in all
C5_Witness ==
    /\ Len(ops) >= 4
    /\ ops[Len(ops)] = "destruct"
    /\ ops[Len(ops) - 1] = "fail"
    /\ ops[Len(ops) - 2] = "replace"
    /\ ops[Len(ops) - 3] = "write"
    /\ Len(Destroys(native)) = 1

\* the handles held by the owning wrappers of the application, slot by slot
HeldSlots ==
    {<<m, 0>> : m \in {x \in Range(Members) : ~IsVector(x)}}
    \cup UNION {{<<m, i>> : i \in 1..Len(app[m])} :
                   m \in {x \in Range(Members) : IsVector(x)}}

HeldAt(slot) ==
    IF IsVector(slot[1]) THEN app[slot[1]][slot[2]] ELSE app[slot[1]]

\* C6: at every point of construction, use and teardown no non-null handle
\* is held by two owning wrappers, the elements of the image-view and
\* framebuffer vectors included.
C6_NoSharedHandle ==
    \A s, t \in HeldSlots :
        (s # t /\ HeldAt(s) # VK_NULL_HANDLE) => HeldAt(s) # HeldAt(t)

\* a fully built session with two image views and two framebuffers
C6_Witness ==
    /\ pc = "mainLoop"
    /\ Len(app.swapChainImageViews) = 2
    /\ Len(app.swapChainFramebuffers) = 2
    /\ \A i \in 1..2 : /\ app.swapChainImageViews[i] # VK_NULL_HANDLE
                       /\ app.swapChainFramebuffers[i] # VK_NULL_HANDLE

ClaimedSteps ==
    <<"createInstance", "setupDebugCallback", "createSurface",
      "pickPhysicalDevice", "createLogicalDevice", "createSwapChain",
      "createImageViews", "createRenderPass", "createGraphicsPipeline",
      "createFrameBuffers", "createCommandPool", "createCommandBuffers",
      "mainLoop">>

Live(h) == h # VK_NULL_HANDLE /\ h \in native.live
AllLive(v) == \A i \in 1..Len(v) : Live(v[i])

\* what the first k construction steps leave behind when they succeed
Built(k) ==
    /\ k >= 1 => Live(app.instance)
    /\ k >= 2 => (enableValidationLayers => Live(app.callback))
    /\ k >= 3 => Live(app.surface)
    /\ k >= 4 => physicalDevice \in 1..Len(devices)
    /\ k >= 5 => Live(app.device)
    /\ k >= 6 => Live(app.swapChain) /\ Len(swapChainImages) >= 1
    /\ k >= 7 => /\ Len(app.swapChainImageViews) = Len(swapChainImages)
                 /\ AllLive(app.swapChainImageViews)
    /\ k >= 8 => Live(app.renderPass)
    /\ k >= 9 => Live(app.pipelineLayout) /\ Live(app.graphicsPipeline)
    /\ k >= 10 => /\ Len(app.swapChainFramebuffers) = Len(swapChainImages)
                  /\ AllLive(app.swapChainFramebuffers)
    /\ k >= 11 => Live(app.commandPool)
    /\ k >= 12 => /\ Len(commandBuffers) = Len(swapChainImages)
                  /\ \A i \in 1..Len(commandBuffers) :
                         commandBuffers[i] # VK_NULL_HANDLE

Position(step) == CHOOSE i \in 1..Len(ClaimedSteps) : ClaimedSteps[i] = step

\* C7: the steps are entered in the order instance, debug callback, surface,
\* physical device, logical device, swapchain, image views, render pass,
\* pipeline, framebuffers, command pool, command buffers; when a step is
\* about to start, exactly the earlier ones have been entered, none has
\* failed and what they build is in place; the step that fails started after
\* all earlier ones had succeeded.
C7_StepsInOrder ==
    /\ Len(steps) <= Len(ClaimedSteps)
    /\ \A i \in 1..Len(steps) : steps[i] = ClaimedSteps[i]
    /\ pc \in Range(ClaimedSteps) =>
           /\ Len(steps) = Position(pc) - 1
           /\ error = ""
           /\ Built(Position(pc) - 1)
    /\ pc = "thrown" => Len(steps) >= 1 /\ Built(Len(steps) - 1)

\* the last construction step is about to start
C7_Witness ==
    /\ pc = "createCommandBuffers"
    /\ Len(steps) = 11

NoRepeat(q) == \A i, j \in 1..Len(q) : i # j => q[i] # q[j]

\* C8: once a step has failed, the error surfaced never changes, no step is
\* entered (the failed one is not entered again) and no native creation call
\* is made; the failed step is the last one entered.
C8_AbortOnFirstError ==
    /\ [](error # "" => NoRepeat(steps) /\ pc \notin Range(ClaimedSteps))
    /\ [][error # "" =>
            /\ error' = error
            /\ steps' = steps
            /\ Creates(native') = Creates(native)]_vars

\* render-pass creation failed and teardown is under way
C8_Witness ==
    /\ error = "failed to create render pass!"
    /\ pc = "dtor"
    /\ steps[Len(steps)] = "createRenderPass"

\* C9: the main loop is entered only after all twelve construction steps
\* were entered and succeeded, with everything they build in place; after
\* a failure it is never entered.
C9_MainLoopOnlyIfBuilt ==
    /\ (pc = "mainLoop" \/ "mainLoop" \in Range(steps)) =>
           /\ error = ""
           /\ Len(steps) >= 12
           /\ \A i \in 1..12 : steps[i] = ClaimedSteps[i]
    /\ pc = "mainLoop" => Built(12)
    /\ error # "" => pc # "mainLoop" /\ "mainLoop" \notin Range(steps)

\* the main loop has been entered
C9_Witness ==
    /\ "mainLoop" \in Range(steps)
    /\ pc = "returned"

Scores == {rateDeviceSuitability(devices[i]) : i \in 1..Len(devices)}

\* C10: for a non-empty enumeration with a positive score, once
\* pickPhysicalDevice has run it has selected, without error, an accelerator
\* whose score is the maximum over the enumeration.
C10_PicksMaxScore ==
    (pc # "pickPhysicalDevice" /\ devices # <<>>
     /\ \E s \in Scores : s > 0) =>
        /\ error = ""
        /\ physicalDevice \in 1..Len(devices)
        /\ \A s \in Scores :
               s <= rateDeviceSuitability(devices[physicalDevice])

BestScore == CHOOSE s \in Scores : \A t \in Scores : t <= s

\* C11: once pickPhysicalDevice has run on a non-empty enumeration whose
\* best score is 0, it has thrown the no-suitable-accelerator error and the
\* selected physical device is still null.
C11_NoSuitableWhenBestIsZero ==
    (pc # "pickPhysicalDevice" /\ devices # <<>> /\ BestScore = 0) =>
        /\ pc = "thrown"
        /\ error = NoSuitableGpuError
        /\ physicalDevice = VK_NULL_HANDLE

\* pickPhysicalDevice has run on several accelerators, none scoring above 0
C11_Witness ==
    /\ pc = "thrown"
    /\ Len(devices) >= 2
    /\ BestScore = 0
    /\ error = NoSuitableGpuError

\* C12: once pickPhysicalDevice has run on an empty enumeration, it has
\* thrown the no-accelerator-found error, which is not the no-suitable one,
\* and the selected physical device is still null.
C12_NoGpuWhenEmpty ==
    (pc # "pickPhysicalDevice" /\ devices = <<>>) =>
        /\ pc = "thrown"
        /\ error = NoGpuError
        /\ error # NoSuitableGpuError
        /\ physicalDevice = VK_NULL_HANDLE

\* pickPhysicalDevice has run on an empty enumeration
C12_Witness ==
    /\ pc = "thrown"
    /\ devices = <<>>
    /\ error = NoGpuError
    /\ steps[Len(steps)] = "pickPhysicalDevice"

\* the accelerator has a family with a queue and the capability of a role
HasFamily(dev, role) ==
    \E i \in 1..Len(dev.queueFamilies) :
        dev.queueFamilies[i].queueCount > 0 /\ dev.queueFamilies[i][role]

\* the four conditions of suitability, stated on the accelerator itself
FourConditions(dev) ==
    /\ dev.geometryShader
    /\ HasFamily(dev, "graphics") /\ HasFamily(dev, "present")
    /\ \A e \in {"VK_KHR_swapchain"} : e \in dev.extensions
    /\ dev.formats # <<>> /\ dev.presentModes # <<>>

\* C13: isDeviceSuitable returns true exactly when the geometry-shader
\* feature is supported, a graphics and a present family exist, every
\* required extension is available and neither the format list nor the
\* present-mode list is empty.
C13_SuitableIffFourConditions ==
    called = "isDeviceSuitable" =>
        returned = FourConditions(physicalDeviceCandidate)

\* isDeviceSuitable has accepted an accelerator with two split families
C13_Witness ==
    /\ called = "isDeviceSuitable"
    /\ returned = TRUE
    /\ Len(physicalDeviceCandidate.queueFamilies) = 2
    /\ ~physicalDeviceCandidate.queueFamilies[1].present

\* C14: rateDeviceSuitability returns 0 for every accelerator without
\* geometry-shader support, whatever its type, families and image dimension.
C14_ZeroWithoutGeometryShader ==
    (called = "rateDeviceSuitability"
     /\ ~physicalDeviceCandidate.geometryShader) => returned = 0

\* a discrete accelerator that lacks nothing but geometry shaders was rated
C14_Witness ==
    /\ called = "rateDeviceSuitability"
    /\ returned = 0
    /\ FourConditions([physicalDeviceCandidate EXCEPT !.geometryShader = TRUE])
    /\ ~physicalDeviceCandidate.geometryShader
    /\ physicalDeviceCandidate.deviceType = "DISCRETE"
    /\ physicalDeviceCandidate.maxImageDimension2D = 16384

\* the accelerator's graphics and present family are one and the same
UnifiedFamilies(dev) ==
    findQueueFamilies(dev).graphicsFamily = findQueueFamilies(dev).presentFamily

\* the accelerators that differ from dev in type and queue families only
Rivals(dev, type) ==
    {[dev EXCEPT !.deviceType = type, !.queueFamilies = f] :
        f \in SeqsUpTo(QueueFamilies, MaxFamilies)}

\* C15: a suitable discrete accelerator with one family for graphics and
\* present is rated strictly higher than every suitable integrated one with
\* different families and the same maximum 2D image dimension.
C15_DiscreteUnifiedOutscores ==
    (called = "rateDeviceSuitability"
     /\ FourConditions(physicalDeviceCandidate)
     /\ physicalDeviceCandidate.deviceType = "DISCRETE"
     /\ UnifiedFamilies(physicalDeviceCandidate)) =>
        \A rival \in Rivals(physicalDeviceCandidate, "INTEGRATED") :
            (FourConditions(rival) /\ ~UnifiedFamilies(rival)) =>
                returned > rateDeviceSuitability(rival)

\* 1 plus the bonuses the accelerator earns
BaseScore(dev) ==
    1 + (IF dev.deviceType = "DISCRETE" THEN 1000 ELSE 0)
      + (IF UnifiedFamilies(dev) THEN 100 ELSE 0)

\* C16: a suitable accelerator is rated 1 plus 1000 if discrete plus 100 if
\* its graphics and present family coincide plus its maximum 2D image
\* dimension (as an unsigned value), and a discrete accelerator with
\* different families is rated strictly higher than every suitable
\* integrated one with one family and the same image dimension.
C16_ScoreIsSumOfBonuses ==
    (called = "rateDeviceSuitability"
     /\ FourConditions(physicalDeviceCandidate)) =>
        /\ physicalDeviceCandidate.maxImageDimension2D >= 0
        /\ physicalDeviceCandidate.maxImageDimension2D
               <= MaxInt32 - BaseScore(physicalDeviceCandidate)
        /\ returned = BaseScore(physicalDeviceCandidate)
                        + physicalDeviceCandidate.maxImageDimension2D
        /\ (physicalDeviceCandidate.deviceType = "DISCRETE"
            /\ ~UnifiedFamilies(physicalDeviceCandidate)) =>
               \A rival \in Rivals(physicalDeviceCandidate, "INTEGRATED") :
                   (FourConditions(rival) /\ UnifiedFamilies(rival)) =>
                       returned > rateDeviceSuitability(rival)

\* C17: the score rateDeviceSuitability returns is never negative, and it
\* is 0 only for an accelerator that is not suitable.
C17_ScoreNonNegative ==
    called = "rateDeviceSuitability" =>
        /\ returned >= 0
        /\ returned = 0 => ~FourConditions(physicalDeviceCandidate)

\* the 0-based indices up to last of the families that have a queue and
\* the capability of a role
Capable(dev, role, last) ==
    {i \in 0..last : /\ i < Len(dev.queueFamilies)
                     /\ dev.queueFamilies[i + 1].queueCount > 0
                     /\ dev.queueFamilies[i + 1][role]}

Lowest(S) == IF S = {} THEN Unset ELSE CHOOSE i \in S : \A j \in S : i <= j
Highest(S) == IF S = {} THEN Unset ELSE CHOOSE i \in S : \A j \in S : j <= i

LastIndex(dev) == Len(dev.queueFamilies) - 1

\* the index at which the scan ends: the first one by which both roles have
\* a capable family, the last index of the list if there is none
StopIndex(dev) ==
    Lowest({k \in 0..LastIndex(dev) :
               /\ Capable(dev, "graphics", k) # {}
               /\ Capable(dev, "present", k) # {}}
           \cup {LastIndex(dev)})

\* C18 as claimed: findQueueFamilies returns the lowest index of a
\* graphics-capable family as the graphics index and, independently, the
\* lowest index of a present-capable family as the present index.
C18_FirstIndices ==
    called = "findQueueFamilies" =>
        /\ returned.graphicsFamily =
               Lowest(Capable(physicalDeviceCandidate, "graphics",
                              LastIndex(physicalDeviceCandidate)))
        /\ returned.presentFamily =
               Lowest(Capable(physicalDeviceCandidate, "present",
                              LastIndex(physicalDeviceCandidate)))

\* C18 as the code has it: the scan ends at the first index by which both
\* roles have a capable family (or with the list), and each index returned
\* is the highest index of a capable family up to there, unset if none.
C18_LastIndicesUpToStop ==
    called = "findQueueFamilies" =>
        /\ returned.graphicsFamily =
               Highest(Capable(physicalDeviceCandidate, "graphics",
                               StopIndex(physicalDeviceCandidate)))
        /\ returned.presentFamily =
               Highest(Capable(physicalDeviceCandidate, "present",
                               StopIndex(physicalDeviceCandidate)))

\* findQueueFamilies has passed over a graphics-capable family 0 and
\* returned family 1 for both roles
C18_Witness ==
    /\ called = "findQueueFamilies"
    /\ 0 \in Capable(physicalDeviceCandidate, "graphics", 0)
    /\ returned.graphicsFamily = 1
    /\ returned.presentFamily = 1

\* C19: for a non-empty format list chooseSwapSurfaceFormat returns the
\* pair (B8G8R8A8_UNORM, SRGB_NONLINEAR) if the list is a single entry of
\* format UNDEFINED, whatever its color space, else that pair if the list
\* contains it, else the first entry; so it returns that pair or an entry.
C19_FormatChoice ==
    (called = "chooseSwapSurfaceFormat"
     /\ physicalDeviceCandidate.formats # <<>>) =>
        LET formats == physicalDeviceCandidate.formats
            pair == [format |-> "B8G8R8A8_UNORM",
                     colorSpace |-> "SRGB_NONLINEAR"]
        IN /\ returned =
                  IF Len(formats) = 1 /\ formats[1].format = "UNDEFINED"
                  THEN pair
                  ELSE IF pair \in Range(formats) THEN pair
                  ELSE formats[1]
           /\ returned = pair \/ returned \in Range(formats)

\* chooseSwapSurfaceFormat has replaced a single UNDEFINED entry of another
\* color space by the preferred pair
C19_Witness ==
    /\ called = "chooseSwapSurfaceFormat"
    /\ physicalDeviceCandidate.formats =
           <<[format |-> "UNDEFINED", colorSpace |-> "EXTENDED_SRGB_LINEAR"]>>
    /\ returned = PreferredFormat

\* C20: chooseSwapPresentMode returns MAILBOX if MAILBOX occurs anywhere in
\* the list and FIFO otherwise, whether or not FIFO is listed.
C20_MailboxIffListed ==
    called = "chooseSwapPresentMode" =>
        returned = IF \E i \in 1..Len(physicalDeviceCandidate.presentModes) :
                          physicalDeviceCandidate.presentModes[i] = "MAILBOX"
                   THEN "MAILBOX" ELSE "FIFO"

\* chooseSwapPresentMode has found MAILBOX behind FIFO and IMMEDIATE
C20_Witness ==
    /\ called = "chooseSwapPresentMode"
    /\ physicalDeviceCandidate.presentModes = <<"FIFO", "IMMEDIATE", "MAILBOX">>
    /\ returned = "MAILBOX"

\* a <= b as unsigned 32-bit values
ULe(a, b) == ~ULess(b, a)

\* C21: chooseSwapExtent returns the current extent unchanged unless its
\* width is 0xFFFFFFFF; otherwise it returns 800 x 600 clamped on each axis
\* on its own into [minImageExtent, maxImageExtent], which lies within
\* those bounds on every axis where the minimum does not exceed the maximum.
C21_ExtentChoice ==
    called = "chooseSwapExtent" =>
        LET c == physicalDeviceCandidate.capabilities
            Clamped(requested, lo, hi, result) ==
                ULe(lo, hi) =>
                    /\ result = IF ULess(requested, lo) THEN lo
                                ELSE IF ULess(hi, requested) THEN hi
                                ELSE requested
                    /\ ULe(lo, result) /\ ULe(result, hi)
        IN IF c.currentExtent.width # -1
           THEN returned = c.currentExtent
           ELSE /\ Clamped(800, c.minImageExtent.width,
                           c.maxImageExtent.width, returned.width)
                /\ Clamped(600, c.minImageExtent.height,
                           c.maxImageExtent.height, returned.height)

\* chooseSwapExtent has clamped the width down to the maximum and the
\* height up to the minimum
C21_Witness ==
    /\ called = "chooseSwapExtent"
    /\ physicalDeviceCandidate.capabilities.currentExtent.width = UINT32_MAX
    /\ physicalDeviceCandidate.capabilities.maxImageExtent.width = 640
    /\ physicalDeviceCandidate.capabilities.minImageExtent.height = 700
    /\ returned = [width |-> 640, height |-> 700]

\* C22: the image count createSwapChain requests is minImageCount + 1,
\* except that it is maxImageCount when that is nonzero and exceeded by
\* minImageCount + 1; it is at least minImageCount whenever maxImageCount
\* is 0 or not below minImageCount.
C22_ImageCount ==
    called = "imageCount" =>
        LET lo == physicalDeviceCandidate.capabilities.minImageCount
            hi == physicalDeviceCandidate.capabilities.maxImageCount
        IN /\ IF hi # 0 /\ ULe(hi, lo)
              THEN returned = hi
              ELSE lo # UINT32_MAX /\ returned = lo + 1
           /\ (hi = 0 \/ ULe(lo, hi)) => ULe(lo, returned)

\* the family indices named by the queue-create-infos, in order
InfoFamilies == [i \in 1..Len(queueCreateInfos) |->
                    queueCreateInfos[i].queueFamilyIndex]

\* C23: once createLogicalDevice has been entered, the queue-create-infos
\* it passed name each distinct index among the graphics and the present
\* family of the selected accelerator exactly once: one entry if the two
\* are equal, two entries with different indices if they differ.
C23_OneInfoPerDistinctFamily ==
    "createLogicalDevice" \in Range(steps) =>
        LET indices == findQueueFamilies(devices[physicalDevice])
            roles == {indices.graphicsFamily, indices.presentFamily}
        IN /\ Range(InfoFamilies) = roles
           /\ Len(queueCreateInfos) = Cardinality(roles)
           /\ \A i, j \in 1..Len(queueCreateInfos) :
                  i # j => InfoFamilies[i] # InfoFamilies[j]
           /\ indices.graphicsFamily = indices.presentFamily
                  => Len(queueCreateInfos) = 1
           /\ indices.graphicsFamily # indices.presentFamily
                  => Len(queueCreateInfos) = 2

\* a logical device was created for an accelerator with a single family
\* for both roles
C23_Witness ==
    /\ "createLogicalDevice" \in Range(steps)
    /\ app.device # VK_NULL_HANDLE
    /\ findQueueFamilies(devices[physicalDevice]).graphicsFamily
           = findQueueFamilies(devices[physicalDevice]).presentFamily
    /\ Len(queueCreateInfos) = 1

\* C24: in a fully built session there are as many image views, as many
\* framebuffers and as many command buffers as the swapchain returned images.
C24_CountsEqualImages ==
    pc \in {"mainLoop", "returned"} =>
        /\ Len(app.swapChainImageViews) = Len(swapChainImages)
        /\ Len(app.swapChainFramebuffers) = Len(swapChainImages)
        /\ Len(commandBuffers) = Len(swapChainImages)

\* a session is fully built on a swapchain that returned more images than
\* were requested
C24_Witness ==
    /\ pc = "mainLoop"
    /\ Len(swapChainImages) > commandBufferCountRequested
    /\ Len(commandBuffers) = Len(swapChainImages)
    /\ Len(app.swapChainImageViews) = Len(swapChainImages)

ValidationLayersError == "validation layers requested, but not available!"

\* C25: with validation layers enabled and a requested layer missing from
\* the enumerated layers, createInstance throws the validation-layers error
\* without any native call: no instance and nothing else is ever created.
C25_MissingLayerFailsFirst ==
    (enableValidationLayers
     /\ (\E layer \in validationLayers : layer \notin availableLayers)
     /\ pc \notin {"initWindow", "createInstance"}) =>
        /\ error = ValidationLayersError
        /\ steps = <<"createInstance">>
        /\ native.calls = <<>>
        /\ native.live = {}
        /\ app = AppInit

\* a debug build whose installation reports only another layer has failed
\* in createInstance and been torn down
C25_Witness ==
    /\ enableValidationLayers
    /\ availableLayers = {"VK_LAYER_LUNARG_api_dump"}
    /\ error = ValidationLayersError
    /\ pc = "destroyed"

LastOp(history) == IF history = <<>> THEN "none" ELSE history[Len(history)]

\* C26: replace() destroys the handle held (one call if it was non-null,
\* none if it was null) before it exposes the slot, so that while the slot
\* is exposed the wrapper holds null and no handle it ever held is live; a
\* failed native call leaves it null, and the next release calls nothing.
C26_ReplaceReleasesThenExposes ==
    /\ [](dpc = "slot" =>
             /\ object = VK_NULL_HANDLE
             /\ native.live \cap Range(stored) = {})
    /\ [](LastOp(ops) = "fail" => object = VK_NULL_HANDLE)
    /\ [][DReplace =>
             /\ dpc' = "slot"
             /\ Len(native'.calls) =
                    Len(native.calls)
                    + (IF object = VK_NULL_HANDLE THEN 0 ELSE 1)]_vars
    /\ [][(LastOp(ops) = "fail" /\ (DReplace \/ DDestruct)) =>
             native' = native]_vars

\* a held handle was replaced, the native call failed, and the wrapper was
\* destroyed: one destroy call in all, made by replace()
C26_Witness ==
    /\ ops = <<"replace", "write", "replace", "fail", "destruct">>
    /\ Len(Destroys(native)) = 1
    /\ object = VK_NULL_HANDLE

\* C27: assigning the handle already held calls nothing and changes
\* nothing; assigning a different handle destroys the handle held before,
\* once, if it was non-null, and stores the new one.
C27_AssignReleasesIffDifferent ==
    [][(DAssignHeld \/ DAssignFresh) =>
          IF LastOp(ops') = "assignSame"
          THEN object' = object /\ native' = native
          ELSE /\ object' # object
               /\ object' = IF LastOp(ops') = "assignNull"
                            THEN VK_NULL_HANDLE ELSE native.next
               /\ Len(Destroys(native')) =
                      Len(Destroys(native))
                      + (IF object = VK_NULL_HANDLE THEN 0 ELSE 1)
               /\ native'.live \cap Range(stored) = {}
               /\ object # VK_NULL_HANDLE =>
                      DestroyCount(native', object) = 1]_vars

\* a handle was assigned, assigned again to itself, then replaced by
\* another: one destroy call in all
C27_Witness ==
    /\ ops = <<"assignNew", "assignSame", "assignNew">>
    /\ Len(Destroys(native)) = 1
    /\ object \in native.live

\* the error each native creation call surfaces when it fails, by the
\* resource created
CreationError ==
    [instance              |-> "failed to create instance!",
     callback              |-> "failed to set up debug callback!",
     surface               |-> "failed to create window surface!",
     device                |-> "failed to create logical device!",
     swapChain             |-> "failed to create swap chain!",
     swapChainImageViews   |-> "failed to create image views!",
     renderPass            |-> "failed to create render pass!",
     shaderModule          |-> "failed to create shader module!",
     pipelineLayout        |-> "failed to create pipeline layout!",
     graphicsPipeline      |-> "failed to create graphics pipeline!",
     swapChainFramebuffers |-> "failed to create framebuffer!",
     commandPool           |-> "failed to create command pool!",
     allocateCommandBuffers |-> "failed to allocate command buffers!",
     recordCommandBuffer   |-> "failed to record command buffer!"]

\* the construction step that makes each native creation call
CreationStep ==
    [instance              |-> "createInstance",
     callback              |-> "setupDebugCallback",
     surface               |-> "createSurface",
     device                |-> "createLogicalDevice",
     swapChain             |-> "createSwapChain",
     swapChainImageViews   |-> "createImageViews",
     renderPass            |-> "createRenderPass",
     shaderModule          |-> "createGraphicsPipeline",
     pipelineLayout        |-> "createGraphicsPipeline",
     graphicsPipeline      |-> "createGraphicsPipeline",
     swapChainFramebuffers |-> "createFrameBuffers",
     commandPool           |-> "createCommandPool",
     allocateCommandBuffers |-> "createCommandBuffers",
     recordCommandBuffer   |-> "createCommandBuffers"]

\* the number of successful native creations of a kind
Created(kind) == Len(SelectSeq(native.calls,
                     LAMBDA c : c.op = "create" /\ c.kind = kind))

\* the native call of this kind is the one that failed in the last step:
\* what the step creates before it exists, what it creates after it does not
FailedAt(kind) ==
    CASE kind \in {"instance", "callback", "surface", "device", "swapChain",
                   "renderPass", "commandPool"} ->
             app[kind] = VK_NULL_HANDLE
      [] kind \in {"swapChainImageViews", "swapChainFramebuffers"} ->
             \E i \in 1..Len(app[kind]) : app[kind][i] = VK_NULL_HANDLE
      [] kind = "shaderModule" ->
             Created("shaderModule") < 2 /\ Created("pipelineLayout") = 0
      [] kind = "pipelineLayout" ->
             Created("shaderModule") = 2 /\ Created("pipelineLayout") = 0
      [] kind = "graphicsPipeline" ->
             Created("pipelineLayout") = 1 /\ Created("graphicsPipeline") = 0
      [] kind = "allocateCommandBuffers" ->
             \A i \in 1..Len(commandBuffers) :
                 commandBuffers[i] = VK_NULL_HANDLE
      [] OTHER ->
             \A i \in 1..Len(commandBuffers) :
                 commandBuffers[i] # VK_NULL_HANDLE

\* C28: the errors of the native creation calls are pairwise different, and
\* an error of one of them is surfaced exactly when that call has failed,
\* in the step that makes it.
C28_StageErrorsDistinct ==
    /\ \A k1, k2 \in DOMAIN CreationError :
           k1 # k2 => CreationError[k1] # CreationError[k2]
    /\ \A kind \in DOMAIN CreationError :
           error = CreationError[kind] =>
               /\ LastOp(steps) = CreationStep[kind]
               /\ FailedAt(kind)
    /\ (pc = "thrown"
        /\ error \notin {NoGpuError, NoSuitableGpuError,
                          ValidationLayersError, "failed to open file!"}) =>
           \E kind \in DOMAIN CreationError : error = CreationError[kind]

\* the creation of the pipeline layout has failed after both shader modules
\* were created, and its own error has left run()
C28_Witness ==
    /\ pc = "thrown"
    /\ error = "failed to create pipeline layout!"
    /\ Created("shaderModule") = 2
    /\ app.pipelineLayout = VK_NULL_HANDLE

\* C29: when a shader file cannot be opened, the file error leaves run()
\* from createGraphicsPipeline: no shader module, pipeline layout,
\* pipeline, framebuffer, command pool or command buffer is ever created,
\* and once the application object is destroyed every resource of the
\* earlier steps has been destroyed, once.
C29_UnreadableShaderFile ==
    error = "failed to open file!" =>
        /\ pc \in {"thrown", "dtor", "destroyed"}
        /\ LastOp(steps) = "createGraphicsPipeline"
        /\ \A kind \in {"shaderModule", "pipelineLayout", "graphicsPipeline",
                          "swapChainFramebuffers", "commandPool"} :
               Created(kind) = 0
        /\ commandBuffers = <<>>
        /\ Created("renderPass") = 1 /\ Created("swapChain") = 1
        /\ pc = "destroyed" =>
               /\ native.live = {}
               /\ \A i \in 1..Len(native.calls) :
                      native.calls[i].op = "create" =>
                          DestroyCount(native, native.calls[i].h) = 1

\* a session whose shader file could not be opened has been torn down
\* after building two image views and a render pass
C29_Witness ==
    /\ error = "failed to open file!"
    /\ pc = "destroyed"
    /\ Created("swapChainImageViews") = 2
    /\ Created("renderPass") = 1
    /\ native.live = {}

\* the steps after pickPhysicalDevice that read the queue-family indices
IndexUsers == {"createLogicalDevice", "createSwapChain", "createCommandPool"}

\* C30: an accelerator stored by pickPhysicalDevice is suitable and scores
\* above 0: both its queue-family indices are set, so no later step uses
\* the unset index, and its format and present-mode lists are not empty, so
\* no format is read from an empty list.
C30_PickedDeviceSuitable ==
    physicalDevice # VK_NULL_HANDLE =>
        LET dev == devices[physicalDevice]
            indices == findQueueFamilies(dev)
        IN /\ error \notin {NoGpuError, NoSuitableGpuError}
           /\ FourConditions(dev)
           /\ rateDeviceSuitability(dev) > 0
           /\ indices.graphicsFamily >= 0 /\ indices.presentFamily >= 0
           /\ dev.formats # <<>> /\ dev.presentModes # <<>>
           /\ \A i \in 1..Len(queueCreateInfos) :
                  queueCreateInfos[i].queueFamilyIndex >= 0
           /\ swapChainImageFormat \in Formats \cup {"unset"}

\* the second of two accelerators was selected and every later step that
\* reads its indices and its formats has run
C30_Witness ==
    /\ pc = "mainLoop"
    /\ physicalDevice = 2
    /\ IndexUsers \subseteq Range(steps)
    /\ Len(queueCreateInfos) = 2
    /\ swapChainImageFormat = "B8G8R8A8_UNORM"

\* the positions in the enumeration of the accelerators of score s
ScoredAt(s) ==
    {i \in 1..Len(devices) : rateDeviceSuitability(devices[i]) = s}

\* C31: the outcome of pickPhysicalDevice is determined by the enumeration
\* and its scores: the no-accelerator error for an empty enumeration,
\* otherwise the no-suitable error or the accelerator kept for the first
\* key of the candidate map; and the candidate the map keeps for a score is
\* the last enumerated accelerator of that score.
C31_LastOfEqualScoresRetained ==
    pc # "pickPhysicalDevice" =>
        /\ \A s \in Scores :
               RateAll(devices, 1, EmptyMap)[s] = Highest(ScoredAt(s))
        /\ devices = <<>> =>
               error = NoGpuError /\ physicalDevice = VK_NULL_HANDLE
        /\ devices # <<>> =>
               LET first == Lowest(Scores)
               IN IF first > 0
                  THEN /\ error = ""
                       /\ physicalDevice = Highest(ScoredAt(first))
                  ELSE /\ error = NoSuitableGpuError
                       /\ physicalDevice = VK_NULL_HANDLE

\* pickPhysicalDevice has stored the last of three accelerators, the first
\* of which is a different accelerator with the same score
C31_Witness ==
    /\ pc # "pickPhysicalDevice"
    /\ error = ""
    /\ Len(devices) = 3
    /\ physicalDevice = 3
    /\ devices[1] # devices[3]
    /\ ScoredAt(rateDeviceSuitability(devices[3])) = {1, 3}

\* C32: each index findQueueFamilies returns as set is an index of the
\* queue-family list whose family has a queue and the capability of the
\* role; a role no family can serve is returned unset (-1), and the result
\* is then not complete.
C32_IndicesDesignateCapableFamilies ==
    called = "findQueueFamilies" =>
        LET dev == physicalDeviceCandidate
            Role(index, role) ==
                /\ index >= Unset
                /\ index >= 0 => index \in Capable(dev, role, LastIndex(dev))
                /\ ~HasFamily(dev, role) =>
                       index = Unset /\ ~isComplete(returned)
        IN /\ Role(returned.graphicsFamily, "graphics")
           /\ Role(returned.presentFamily, "present")

\* findQueueFamilies has passed over a graphics family without queues,
\* returned the next family for graphics and left the present index unset
C32_Witness ==
    /\ called = "findQueueFamilies"
    /\ Len(physicalDeviceCandidate.queueFamilies) = 2
    /\ physicalDeviceCandidate.queueFamilies[1].queueCount = 0
    /\ physicalDeviceCandidate.queueFamilies[1].graphics
    /\ physicalDeviceCandidate.queueFamilies[1].present
    /\ returned.graphicsFamily = 1
    /\ returned.presentFamily = Unset
    /\ ~isComplete(returned)

====
